---- MODULE Spec2Model ----
(***************************************************************************)
(* The subtitle pipeline of scripts/transcribe_groq.py: word tokens (or    *)
(* coarse segments) are grouped into segments, the first segment's start   *)
(* is corrected, every segment's end is extended and the cue blocks are    *)
(* written (Spec).  detect_audio_segments (SpecTrace) and the timestamp    *)
(* formatters with time_to_seconds of scripts/utils.py (SpecFormat) are    *)
(* also run on their own, on inputs the pipeline does not give them, and   *)
(* so are the cross-validation of the extrapolated first start against     *)
(* the audio intervals (SpecNearest), the retry loop around the            *)
(* recognition API (SpecRetry) and extract_audio_within_limit              *)
(* (SpecExtract).                                                          *)
(*                                                                         *)
(* Time.  The code computes with float seconds and rounds some results to  *)
(* 3 decimals.  The model keeps times as integers counted in ticks of      *)
(* 0.2 ms (TicksPerMs ticks per millisecond), so that round(x, 3) is a     *)
(* real operation and a time never lies half-way between two              *)
(* milliseconds; arithmetic is exact.  Timestamps that are no whole        *)
(* milliseconds are what a float32-derived API value such as               *)
(* 3.5199999809265137 is.                                                  *)
(*                                                                         *)
(* Text.  A string is a sequence of one-character strings.                 *)
(***************************************************************************)
EXTENDS Integers, Sequences, FiniteSets, TLC

\* ------------------------------------------------------------------ time
TicksPerMs == 5

\* round(x, 3): the nearest whole millisecond
Round3(t) ==
    LET r == t % TicksPerMs
    IN  IF 2 * r < TicksPerMs THEN t - r ELSE t + TicksPerMs - r

\* round(num / den, 3) for a rational number of ticks, den > 0; an exact
\* half goes to the even millisecond, as Python's round does
Round3Q(num, den) ==
    LET unit == TicksPerMs * den
        q    == num \div unit
        r    == num % unit
    IN  IF 2 * r < unit THEN q * TicksPerMs
        ELSE IF 2 * r > unit THEN (q + 1) * TicksPerMs
        ELSE IF q % 2 = 0 THEN q * TicksPerMs ELSE (q + 1) * TicksPerMs

Max(a, b) == IF a >= b THEN a ELSE b
Abs(a) == IF a >= 0 THEN a ELSE 0 - a

\* ------------------------------------------------------------------ text
IsSpace(c) == c \in {" ", "\t", "\n"}

RECURSIVE LStrip(_)
LStrip(s) == IF s # <<>> /\ IsSpace(Head(s)) THEN LStrip(Tail(s)) ELSE s

RECURSIVE RStrip(_)
RStrip(s) ==
    IF s # <<>> /\ IsSpace(s[Len(s)]) THEN RStrip(SubSeq(s, 1, Len(s) - 1)) ELSE s

\* str.strip()
Strip(s) == RStrip(LStrip(s))

\* re.search(r'[...]$', s) for a class of characters cs
EndsWith(s, cs) == s # <<>> /\ s[Len(s)] \in cs

\* ' '.join(strip(w.word) for w in ws)
RECURSIVE JoinWords(_)
JoinWords(ws) ==
    IF ws = <<>> THEN <<>>
    ELSE IF Len(ws) = 1 THEN Strip(ws[1].word)
    ELSE Strip(ws[1].word) \o <<" ">> \o JoinWords(Tail(ws))

\* -------------------------------------------------------- _split_at_commas
\* the share of max_duration a chunk must reach, as a fraction
MinChunkNum == 4
MinChunkDen == 10

\* a variant of CommaIndices that takes every word but the last for a comma
CommaIndices_EveryWord(ws) == 1..(Len(ws) - 1)

\* indices of the words ending with a comma, the last word excluded
CommaIndices(ws) ==
    { i \in 1..(Len(ws) - 1) : EndsWith(Strip(ws[i].word), {","}) }

\* a variant of ChunkLongEnough that takes a chunk of any length
ChunkLongEnough_Any(chunk_duration, max_duration) == TRUE

\* chunk_duration >= max_duration * 0.4
ChunkLongEnough(chunk_duration, max_duration) ==
    chunk_duration * MinChunkDen >= max_duration * MinChunkNum

\* a variant of ChunkOf that ends the chunk with its first word
ChunkOf_FirstWordEnd(ws) ==
    [start |-> ws[1].start, end |-> ws[1].end, text |-> JoinWords(ws)]

\* the segment made of a run of words
ChunkOf(ws) ==
    [start |-> ws[1].start, end |-> ws[Len(ws)].end, text |-> JoinWords(ws)]

\* the loop over comma_indices: ci runs over the word indices in order, out is
\* the chunks cut so far and from the index of the first word not yet cut
RECURSIVE CommaLoop(_, _, _, _, _)
CommaLoop(ws, max_duration, ci, from, out) ==
    IF ci > Len(ws) - 1 THEN [out |-> out, from |-> from]
    ELSE IF ci \notin CommaIndices(ws)
         THEN CommaLoop(ws, max_duration, ci + 1, from, out)
    ELSE LET chunk_words == SubSeq(ws, from, ci)
             chunk_duration == chunk_words[Len(chunk_words)].end - chunk_words[1].start
         IN  IF ChunkLongEnough(chunk_duration, max_duration)
             THEN CommaLoop(ws, max_duration, ci + 1, ci + 1, Append(out, ChunkOf(chunk_words)))
             ELSE CommaLoop(ws, max_duration, ci + 1, from, out)

_split_at_commas(ws, max_duration) ==
    IF CommaIndices(ws) = {} THEN << ChunkOf(ws) >>
    ELSE LET r == CommaLoop(ws, max_duration, 1, 1, <<>>)
         IN  IF r.from <= Len(ws)
             THEN Append(r.out, ChunkOf(SubSeq(ws, r.from, Len(ws))))
             ELSE r.out

\* ------------------------------------------------------- words_to_sentences
\* a variant of SentenceEnd that takes the full stop alone out
SentenceEnd_NoStop == {"?", "!"}

SentenceEnd == {".", "?", "!"}

\* a variant of JoinText that overwrites the text with the word
JoinText_Overwrite(current_text, word) == word

\* current_text + " " + word, or word alone when current_text is empty
JoinText(current_text, word) ==
    IF current_text # <<>> THEN Strip(current_text \o <<" ">> \o word) ELSE word

RawSegment(current_words, current_text) ==
    [start |-> current_words[1].start,
     end   |-> current_words[Len(current_words)].end,
     text  |-> current_text,
     words |-> current_words]

\* step 1: the loop over the words, then the flush of the trailing buffer
RECURSIVE SentenceLoop(_, _, _, _, _)
SentenceLoop(ws, i, raw, current_words, current_text) ==
    IF i > Len(ws)
    THEN IF current_words # <<>>
         THEN Append(raw, RawSegment(current_words, current_text))
         ELSE raw
    ELSE LET word == Strip(ws[i].word)
         IN  IF word = <<>>
             THEN SentenceLoop(ws, i + 1, raw, current_words, current_text)
             ELSE LET cw == Append(current_words, ws[i])
                      ct == JoinText(current_text, word)
                  IN  IF EndsWith(word, SentenceEnd)
                      THEN SentenceLoop(ws, i + 1, Append(raw, RawSegment(cw, ct)), <<>>, <<>>)
                      ELSE SentenceLoop(ws, i + 1, raw, cw, ct)

RawSegments(ws) == SentenceLoop(ws, 1, <<>>, <<>>, <<>>)

\* step 2 for one raw segment
SplitRaw(seg, max_duration) ==
    IF seg.end - seg.start <= max_duration
    THEN << [start |-> seg.start, end |-> seg.end, text |-> seg.text] >>
    ELSE _split_at_commas(seg.words, max_duration)

RECURSIVE SplitAllRaw(_, _)
SplitAllRaw(raw, max_duration) ==
    IF raw = <<>> THEN <<>>
    ELSE SplitRaw(Head(raw), max_duration) \o SplitAllRaw(Tail(raw), max_duration)

\* a variant of words_to_sentences that closes a segment even with no word
words_to_sentences_FlushAlways(ws, max_duration) ==
    IF ws = <<>> THEN << [start |-> 0, end |-> 0, text |-> <<>>] >>
    ELSE SplitAllRaw(RawSegments(ws), max_duration)

words_to_sentences(ws, max_duration) ==
    IF ws = <<>> THEN <<>> ELSE SplitAllRaw(RawSegments(ws), max_duration)

\* ------------------------------------------------------ split_long_segments
MaxChars == 60
CoarseMaxDuration == 20000

SentencePunct == {".", "?", "!"}
ClausePunct == {",", ";", ":"}

\* the first index >= i of text that holds no whitespace
RECURSIVE SkipSpaces(_, _)
SkipSpaces(text, i) ==
    IF i <= Len(text) /\ IsSpace(text[i]) THEN SkipSpaces(text, i + 1) ELSE i

\* re.split(r'(?<=[punct])\s+', text): a run of whitespace that follows a
\* character of punct separates two parts
RECURSIVE SplitLoop(_, _, _, _, _)
SplitLoop(text, punct, i, cur, parts) ==
    IF i > Len(text) THEN Append(parts, cur)
    ELSE IF IsSpace(text[i]) /\ i > 1 /\ text[i - 1] \in punct
         THEN SplitLoop(text, punct, SkipSpaces(text, i), <<>>, Append(parts, cur))
         ELSE SplitLoop(text, punct, i + 1, Append(cur, text[i]), parts)

ReSplit(text, punct) == SplitLoop(text, punct, 1, <<>>, <<>>)

\* sentence boundaries first, clause boundaries when that gives one part
SplitParts(text) ==
    LET parts == ReSplit(text, SentencePunct)
    IN  IF Len(parts) <= 1 THEN ReSplit(text, ClausePunct) ELSE parts

RECURSIVE TotalChars(_)
TotalChars(parts) ==
    IF parts = <<>> THEN 0 ELSE Len(Head(parts)) + TotalChars(Tail(parts))

\* a variant of PartEnd that leaves current_time out of the sum
PartEnd_NoCurrentTime(i, n, current_time, part_duration, end, total_chars) ==
    IF i < n THEN part_duration ELSE end * total_chars

\* the end of part i: the last part ends at the segment's end, an earlier one
\* part_duration after current_time.  Times here are numerators over total_chars.
PartEnd(i, n, current_time, part_duration, end, total_chars) ==
    IF i < n THEN current_time + part_duration ELSE end * total_chars

\* the loop over the parts; current_time is a numerator over total_chars
RECURSIVE PartLoop(_, _, _, _, _, _, _)
PartLoop(parts, i, current_time, duration, end, total_chars, out) ==
    IF i > Len(parts) THEN out
    ELSE LET part == Strip(parts[i])
         IN  IF part = <<>>
             THEN PartLoop(parts, i + 1, current_time, duration, end, total_chars, out)
             ELSE LET part_duration == duration * Len(part)
                      part_end == PartEnd(i, Len(parts), current_time, part_duration,
                                          end, total_chars)
                  IN  PartLoop(parts, i + 1, part_end, duration, end, total_chars,
                               Append(out, [start |-> Round3Q(current_time, total_chars),
                                            end   |-> Round3Q(part_end, total_chars),
                                            text  |-> part]))

\* what split_long_segments appends to its result for one segment
SplitSegment(seg, max_chars, max_duration) ==
    LET text == Strip(seg.text)
        duration == seg.end - seg.start
        parts == SplitParts(text)
        total_chars == TotalChars(parts)
    IN  IF Len(text) <= max_chars /\ duration <= max_duration THEN << seg >>
        ELSE IF Len(parts) <= 1 THEN << seg >>
        ELSE PartLoop(parts, 1, seg.start * total_chars, duration, seg.end,
                      total_chars, <<>>)

RECURSIVE split_long_segments(_, _, _)
split_long_segments(segs, max_chars, max_duration) ==
    IF segs = <<>> THEN <<>>
    ELSE SplitSegment(Head(segs), max_chars, max_duration)
         \o split_long_segments(Tail(segs), max_chars, max_duration)

\* ---------------------------------------------------- detect_audio_segments
\* The silencedetect trace is the sequence of its silence lines, each
\* [k |-> "silence_start" or "silence_end", v |-> the text after the colon].
Digits == << "0", "1", "2", "3", "4", "5", "6", "7", "8", "9" >>

IsDigit(c) == \E d \in 1..10 : Digits[d] = c

DigitVal(c) == (CHOOSE d \in 1..10 : Digits[d] = c) - 1

\* the longest prefix of a text made of digits and dots: the group ([\d.]+)
RECURSIVE TakeNumber(_)
TakeNumber(text) ==
    IF text # <<>> /\ (IsDigit(Head(text)) \/ Head(text) = ".")
    THEN << Head(text) >> \o TakeNumber(Tail(text))
    ELSE <<>>

\* what the pattern captures after the key: \s* and then the group
Group(v) == TakeNumber(LStrip(v))

\* re.findall: the captured texts of the lines of key k; a line with no digit
\* or dot after the key is no match
RECURSIVE FindAll(_, _)
FindAll(trace, k) ==
    IF trace = <<>> THEN <<>>
    ELSE IF Head(trace).k = k /\ Group(Head(trace).v) # <<>>
         THEN << Group(Head(trace).v) >> \o FindAll(Tail(trace), k)
         ELSE FindAll(Tail(trace), k)

\* float() takes a text of digits and dots when it has a digit and at most
\* one dot; it raises ValueError on any other
IsFloat(text) ==
    /\ \A i \in 1..Len(text) : IsDigit(text[i]) \/ text[i] = "."
    /\ \E i \in 1..Len(text) : IsDigit(text[i])
    /\ Cardinality({ i \in 1..Len(text) : text[i] = "." }) <= 1

\* the number a text of digits reads as
RECURSIVE IntVal(_)
IntVal(ds) == IF ds = <<>> THEN 0 ELSE IntVal(SubSeq(ds, 1, Len(ds) - 1)) * 10 + DigitVal(ds[Len(ds)])

\* float(text) in ticks: the digits before the dot are seconds, the first four
\* after it are tenths of a millisecond (no text of the inputs has more)
FloatOf(text) ==
    LET dots == { i \in 1..Len(text) : text[i] = "." }
        dot  == IF dots = {} THEN Len(text) + 1 ELSE CHOOSE i \in dots : TRUE
        frac == SubSeq(text, dot + 1, Len(text)) \o << "0", "0", "0", "0" >>
    IN  IntVal(SubSeq(text, 1, dot - 1)) * (1000 * TicksPerMs)
        + (IntVal(SubSeq(frac, 1, 4)) * TicksPerMs) \div 10

\* [float(m) for m in re.findall(...)]
TraceValues(trace, k) ==
    LET found == FindAll(trace, k)
    IN  [ i \in 1..Len(found) |-> FloatOf(found[i]) ]

\* no float() of the two lists raises
TraceParses(trace) ==
    \A k \in {"silence_end", "silence_start"} :
        \A i \in 1..Len(FindAll(trace, k)) : IsFloat(FindAll(trace, k)[i])

\* a variant of FirstAfter that takes the smallest value greater than s_end
FirstAfter_Smallest(ss, s_end) ==
    LET G == { ss[i] : i \in { j \in 1..Len(ss) : ss[j] > s_end } }
    IN  IF G = {} THEN <<>> ELSE << CHOOSE x \in G : \A y \in G : x <= y >>

\* the first value of ss greater than s_end: << >> for None
RECURSIVE FirstAfter(_, _)
FirstAfter(ss, s_end) ==
    IF ss = <<>> THEN <<>>
    ELSE IF Head(ss) > s_end THEN << Head(ss) >>
    ELSE FirstAfter(Tail(ss), s_end)

RECURSIVE AudioLoop(_, _)
AudioLoop(silence_ends, silence_starts) ==
    IF silence_ends = <<>> THEN <<>>
    ELSE LET a_end == FirstAfter(silence_starts, Head(silence_ends))
             rest == AudioLoop(Tail(silence_ends), silence_starts)
         IN  IF a_end # <<>> /\ a_end[1] # 0
             THEN << [start |-> Head(silence_ends), end |-> a_end[1]] >> \o rest
             ELSE rest

detect_audio_segments(trace) ==
    AudioLoop(TraceValues(trace, "silence_end"), TraceValues(trace, "silence_start"))

\* ------------------------------------------------- find_nearest_audio_start
Tolerance == 10000

\* a variant of NearestStep that lets a later interval win on equal distance
NearestStep_LastWins(best, seg, target_time, tolerance) ==
    LET dist == Abs(seg.start - target_time)
    IN  IF (best = <<>> \/ dist <= best[2]) /\ dist <= tolerance
        THEN << seg.start, dist >>
        ELSE best

\* one turn of the loop: best is << >> (None) or << start, dist >>
NearestStep(best, seg, target_time, tolerance) ==
    LET dist == Abs(seg.start - target_time)
    IN  IF (best = <<>> \/ dist < best[2]) /\ dist <= tolerance
        THEN << seg.start, dist >>
        ELSE best

RECURSIVE NearestLoop(_, _, _, _)
NearestLoop(audio_segments, target_time, tolerance, best) ==
    IF audio_segments = <<>> THEN best
    ELSE NearestLoop(Tail(audio_segments), target_time, tolerance,
                     NearestStep(best, Head(audio_segments), target_time, tolerance))

\* << >> for None, << start >> for a match
find_nearest_audio_start(audio_segments, target_time, tolerance) ==
    LET best == NearestLoop(audio_segments, target_time, tolerance, <<>>)
    IN  IF best = <<>> THEN <<>> ELSE << best[1] >>

\* -------------------------------------------- estimate_first_sentence_start
WindowSlack == 5000
ReliableBelow == 5000
SecondsPerWord == 1750

\* the words that start no later than seg_end + 1.0 s, up to the first that does
RECURSIVE FirstWords(_, _)
FirstWords(ws, seg_end) ==
    IF ws = <<>> THEN <<>>
    ELSE IF Head(ws).start <= seg_end + WindowSlack
         THEN << Head(ws) >> \o FirstWords(Tail(ws), seg_end)
         ELSE <<>>

IsReliable(w) == (w.end - w.start < ReliableBelow) /\ (w.end - w.start > 0)

\* the position (from 1) of the first reliable word, 0 for None; the code's
\* reliable_idx is this position less one
ReliablePos(first_words) ==
    LET R == { i \in 1..Len(first_words) : IsReliable(first_words[i]) }
    IN  IF R = {} THEN 0 ELSE CHOOSE i \in R : \A j \in R : i <= j

\* a variant of EstimatedStart that counts the reliable word too
EstimatedStart_OffByOne(first_words, pos) ==
    first_words[pos].start - pos * SecondsPerWord

\* estimated_start = reliable_start - num_preceding * 0.35
EstimatedStart(first_words, pos) ==
    first_words[pos].start - (pos - 1) * SecondsPerWord

\* a variant of CrossValidate that takes the earlier of the two
CrossValidate_Earlier(estimated_start, best_audio_start) ==
    LET final_start == IF best_audio_start # <<>> /\ best_audio_start[1] < estimated_start
                       THEN best_audio_start[1]
                       ELSE estimated_start
    IN  Max(0, final_start)

\* the later of the estimate and the matched audio start, not before 0
CrossValidate(estimated_start, best_audio_start) ==
    LET final_start == IF best_audio_start # <<>>
                       THEN Max(estimated_start, best_audio_start[1])
                       ELSE estimated_start
    IN  Max(0, final_start)

\* a variant of LastBefore that walks the list forward
RECURSIVE LastBefore_Forward(_, _)
LastBefore_Forward(audio_segments, seg_end) ==
    IF audio_segments = <<>> THEN <<>>
    ELSE IF Head(audio_segments).start < seg_end THEN << Head(audio_segments).start >>
    ELSE LastBefore_Forward(Tail(audio_segments), seg_end)

\* the start of the last audio segment that starts before seg_end, << >> if none
RECURSIVE LastBefore(_, _)
LastBefore(audio_segments, seg_end) ==
    IF audio_segments = <<>> THEN <<>>
    ELSE LET seg == audio_segments[Len(audio_segments)]
         IN  IF seg.start < seg_end THEN << seg.start >>
             ELSE LastBefore(SubSeq(audio_segments, 1, Len(audio_segments) - 1), seg_end)

estimate_first_sentence_start(ws, first_segment, trace) ==
    LET first_words == FirstWords(ws, first_segment.end)
        pos == ReliablePos(first_words)
    IN  IF first_words = <<>> THEN first_segment.start
        ELSE IF pos > 1
             THEN CrossValidate(EstimatedStart(first_words, pos),
                                find_nearest_audio_start(detect_audio_segments(trace),
                                    EstimatedStart(first_words, pos), Tolerance))
        ELSE IF pos = 1 THEN first_words[1].start
        ELSE LET hit == LastBefore(detect_audio_segments(trace), first_segment.end)
             IN  IF hit # <<>> THEN hit[1] ELSE first_segment.start

\* the branches of estimate_first_sentence_start that call detect_audio_segments:
\* a reliable word after the first, or no reliable word at all
CallsDetect(ws, first_segment) ==
    LET first_words == FirstWords(ws, first_segment.end)
    IN  first_words # <<>> /\ ReliablePos(first_words) # 1

\* -------------------------------------------------- extend_subtitle_duration
GapThreshold == 5000
Extension == 5000

\* a variant of ExtendEnd that adds 1.0 s whatever the gap
ExtendEnd_AlwaysExtend(end, next_start) == Round3(end + Extension)

\* the new end of a segment that has a next one
ExtendEnd(end, next_start) ==
    IF next_start - end > GapThreshold THEN Round3(end + Extension) ELSE next_start

\* a variant of ExtendLast that takes the 1.0 s off
ExtendLast_Shorten(end) == Round3(end - Extension)

\* the new end of the last segment
ExtendLast(end) == Round3(end + Extension)

\* The segments are dict objects and the function copies them before it
\* writes to them.  heap is the sequence of the objects there are, a list is
\* the sequence of the positions in heap of the objects it holds.

\* the list that holds the objects of heap, in order
RefsOf(heap) == [ i \in 1..Len(heap) |-> i ]

\* the values of the objects a list holds
Deref(heap, refs) == [ i \in 1..Len(refs) |-> heap[refs[i]] ]

\* a variant of CopyRefs that holds the objects of the input: list(segments)
CopyRefs_Alias(heap, refs) == refs

\* result = [dict(seg) for seg in segments]: one new object for each segment
CopyRefs(heap, refs) == [ i \in 1..Len(refs) |-> Len(heap) + i ]

\* the heap with the new objects, each with the value of the one it copies
CopySegments(heap, refs) == heap \o Deref(heap, refs)

\* for i in range(len(result)): result[i]['end'] is written, read from result
RECURSIVE ExtendLoop(_, _, _)
ExtendLoop(heap, result, i) ==
    IF i > Len(result) THEN heap
    ELSE LET end == heap[result[i]].end
             new == IF i < Len(result)
                    THEN ExtendEnd(end, heap[result[i + 1]].start)
                    ELSE ExtendLast(end)
         IN  ExtendLoop([ heap EXCEPT ![result[i]].end = new ], result, i + 1)

\* the call on a list of segments: the heap it leaves and the list it returns
ExtendCall(heap, segs) ==
    IF segs = <<>> THEN [heap |-> heap, result |-> segs]
    ELSE LET result == CopyRefs(heap, segs)
         IN  [heap |-> ExtendLoop(CopySegments(heap, segs), result, 1),
              result |-> result]

\* the values of the segments the call returns
extend_subtitle_duration(segs) ==
    LET call == ExtendCall(segs, RefsOf(segs))
    IN  Deref(call.heap, call.result)

\* --------------------------------------------------------- format_timestamp
\* A time is a float, the double nearest to its decimal value.  A time of the
\* model that is no whole millisecond lies a fifth of a millisecond or more
\* from the next one, and the error of the double does not show.  A whole
\* millisecond k = 1000 s + m shows it: with 2^e <= k / 1000 < 2^(e + 1) the
\* double is a multiple of 2^(e - 52), and it lies below k / 1000 by
\* r * 2^(e - 52) / 1000 when r = (m * 2^(52 - e)) mod 1000 is in 1..499 (it is
\* exact for r = 0 and lies above otherwise).  seconds % 1 is exact, so
\* (seconds % 1) * 1000 is m - r * 2^(e - 52) before it is rounded to a double,
\* and that rounding gives m again only when r * 2^(e - 52) is at most half a
\* unit in the last place of m, 2^(j - 53) with 2^j <= m < 2^(j + 1).
MsPerSecond == 1000

\* 2^n mod 1000
RECURSIVE Pow2Mod(_)
Pow2Mod(n) == IF n = 0 THEN 1 ELSE (2 * Pow2Mod(n - 1)) % MsPerSecond

\* the e with 2^e <= k / 1000 < 2^(e + 1), for k ms from 1 ms to under 145 h
Exponent(k) ==
    IF k >= MsPerSecond
    THEN CHOOSE e \in 0..18 : MsPerSecond * 2^e <= k /\ k < MsPerSecond * 2^(e + 1)
    ELSE 0 - (CHOOSE d \in 1..10 : k * 2^d >= MsPerSecond /\ k * 2^(d - 1) < MsPerSecond)

\* the j with 2^j <= m < 2^(j + 1), for m in 1..999
Log2(m) == CHOOSE j \in 0..9 : 2^j <= m /\ m < 2^(j + 1)

\* int((seconds % 1) * 1000) for the double nearest to k ms
FloatMillis(k) ==
    LET m == k % MsPerSecond
        e == Exponent(k)
        r == (m * Pow2Mod(52 - e)) % MsPerSecond
    IN  IF m = 0 \/ r = 0 \/ r >= 500 THEN m
        ELSE IF Log2(m) > e /\ 2 * r <= 2^(Log2(m) - e) THEN m
        ELSE m - 1

\* the decimal digits of a number
RECURSIVE DigitsOf(_)
DigitsOf(n) ==
    IF n < 10 THEN << Digits[n + 1] >>
    ELSE DigitsOf(n \div 10) \o << Digits[(n % 10) + 1] >>

\* the format 0<width>d: zeros in front up to the width
RECURSIVE ZeroPad(_, _)
ZeroPad(ds, width) == IF Len(ds) >= width THEN ds ELSE ZeroPad(<< "0" >> \o ds, width)

\* f"{hours:02d}:{minutes:02d}:{secs:02d},{millis:03d}" of a time in ticks
format_timestamp(seconds) ==
    LET k       == seconds \div TicksPerMs
        hours   == k \div (3600 * MsPerSecond)
        minutes == (k % (3600 * MsPerSecond)) \div (60 * MsPerSecond)
        secs    == (k % (60 * MsPerSecond)) \div MsPerSecond
        millis  == IF seconds % TicksPerMs = 0 THEN FloatMillis(k) ELSE k % MsPerSecond
    IN  ZeroPad(DigitsOf(hours), 2) \o << ":" >> \o ZeroPad(DigitsOf(minutes), 2)
        \o << ":" >> \o ZeroPad(DigitsOf(secs), 2) \o << "," >> \o ZeroPad(DigitsOf(millis), 3)

\* ---------------------------------------- utils.seconds_to_time, time_to_seconds
\* f"{secs:06.3f}": secs = seconds % 60 rounded to three decimals, two digits
\* or more before the point
SecsField(seconds) ==
    LET ms == Round3(seconds % (60 * MsPerSecond * TicksPerMs)) \div TicksPerMs
    IN  ZeroPad(DigitsOf(ms \div MsPerSecond), 2) \o << "." >>
        \o ZeroPad(DigitsOf(ms % MsPerSecond), 3)

\* str.replace('.', separator)
ReplaceDots(text, separator) ==
    [ i \in 1..Len(text) |-> IF text[i] = "." THEN separator ELSE text[i] ]

seconds_to_time(seconds, include_hours, use_comma) ==
    LET k         == seconds \div TicksPerMs
        hours     == k \div (3600 * MsPerSecond)
        minutes   == (k % (3600 * MsPerSecond)) \div (60 * MsPerSecond)
        separator == IF use_comma THEN "," ELSE "."
    IN  IF include_hours \/ hours > 0
        THEN ReplaceDots(ZeroPad(DigitsOf(hours), 2) \o << ":" >>
                         \o ZeroPad(DigitsOf(minutes), 2) \o << ":" >>
                         \o SecsField(seconds), separator)
        ELSE ReplaceDots(ZeroPad(DigitsOf(minutes), 2) \o << ":" >>
                         \o SecsField(seconds), separator)

\* str.split(':')
RECURSIVE SplitColon(_, _)
SplitColon(text, cur) ==
    IF text = <<>> THEN << cur >>
    ELSE IF Head(text) = ":" THEN << cur >> \o SplitColon(Tail(text), <<>>)
    ELSE SplitColon(Tail(text), Append(cur, Head(text)))

\* int() takes a text of digits
IsInt(text) == text # <<>> /\ \A i \in 1..Len(text) : IsDigit(text[i])

\* the fields int() and float() are called on, int() ones first
IntFields(parts) ==
    IF Len(parts) = 3 THEN << parts[1], parts[2] >>
    ELSE IF Len(parts) = 2 THEN << parts[1] >>
    ELSE <<>>

FloatField(parts) ==
    IF Len(parts) = 3 THEN parts[3] ELSE IF Len(parts) = 2 THEN parts[2] ELSE parts[1]

\* the call returns: no int() and no float() in it raises ValueError
TimeParses(time_str) ==
    LET parts == SplitColon(Strip(time_str), <<>>)
    IN  /\ \A i \in 1..Len(IntFields(parts)) : IsInt(IntFields(parts)[i])
        /\ IsFloat(FloatField(parts))

\* the seconds it returns, in ticks
time_to_seconds(time_str) ==
    LET parts == SplitColon(Strip(time_str), <<>>)
        tick  == MsPerSecond * TicksPerMs
    IN  IF Len(parts) = 3
        THEN IntVal(parts[1]) * 3600 * tick + IntVal(parts[2]) * 60 * tick + FloatOf(parts[3])
        ELSE IF Len(parts) = 2
        THEN IntVal(parts[1]) * 60 * tick + FloatOf(parts[2])
        ELSE FloatOf(parts[1])

\* ------------------------------------------------------------- the inputs
MaxDuration == 30000

MaxWords == 3
MaxLeadWords == 2
MaxCoarse == 2

\* word texts: blank, plain, ending with a comma, ending a sentence
BlankText == << " " >>
PlainText == << "a" >>
CommaText == << " ", "b", "," >>
StopText  == << "c", "." >>

\* word timings << g, d >>: a word starts g after the start of the word before
\* it (the first word g after 0) and ends d after its own start.  In ticks:
\* 1500 = 0.3 s, 15000 = 3.0 s, 17500 = 3.5 s, 30000 = 6.0 s, -7500 = -1.5 s.
LongAtOnce   == << 0, 15000 >>
ShortLater   == << 15000, 1500 >>
LongLater    == << 15000, 17500 >>
ShortNext    == << 1500, 1500 >>
ZeroLength   == << 0, 0 >>
EndsTooEarly == << 30000, -7500 >>

\* word kinds << text, timing >> of the lists that exercise the segmentation
SegKinds ==
    ({PlainText} \X {LongAtOnce, ShortLater, ShortNext})
    \cup ({CommaText} \X {LongAtOnce, ShortLater, LongLater, ShortNext})
    \cup ({StopText} \X {LongAtOnce, LongLater})
    \cup {<< BlankText, ShortNext >>}

\* word kinds of the lists that exercise the first-start correction
LeadKinds ==
    ({PlainText} \X {LongAtOnce, ShortLater, ZeroLength})
    \cup ({StopText} \X {LongAtOnce, ShortLater, LongLater, EndsTooEarly})

NextWord(ws, kind) ==
    LET prev  == IF ws = <<>> THEN 0 ELSE ws[Len(ws)].start
        start == prev + kind[2][1]
    IN  [word |-> kind[1], start |-> start, end |-> start + kind[2][2]]

\* the word lists of exactly n words of the given kinds; starts never decrease
RECURSIVE WordLists(_, _)
WordLists(kinds, n) ==
    IF n = 0 THEN { <<>> }
    ELSE { Append(ws, NextWord(ws, k)) : ws \in WordLists(kinds, n - 1), k \in kinds }

WordListsUpTo(kinds, n) == UNION { WordLists(kinds, k) : k \in 0..n }

\* what the silence lines of a file carry after the colon: 0.2, 2.0, 3.5, 4.5
\* and 6 s, as the filter prints them (a silence_end line goes on after the
\* number)
At02 == << " ", "0", ".", "2" >>
At20 == << " ", "2", ".", "0" >>
At35 == << " ", "3", ".", "5", " ", "|" >>
At45 == << " ", "4", ".", "5" >>
At60 == << " ", "6" >>

TraceTexts == {At02, At20, At35, At45, At60}

\* texts that are no number: two dots, a lone dot, a sign
TwoDots == << " ", "1", ".", "2", ".", "3" >>
LoneDot == << " ", "." >>
Signed  == << " ", "-", "1" >>

\* the trace over a set of texts: lines in increasing time, silence_start
\* first, then silence_end and silence_start in turn, as the filter prints them
RECURSIVE TraceOver(_, _)
TraceOver(texts, k) ==
    IF texts = {} THEN <<>>
    ELSE LET t == CHOOSE x \in texts :
                      \A y \in texts : FloatOf(Group(x)) <= FloatOf(Group(y))
         IN  << [k |-> k, v |-> t] >>
             \o TraceOver(texts \ {t},
                          IF k = "silence_start" THEN "silence_end" ELSE "silence_start")

Traces ==
    { TraceOver(T, "silence_start") : T \in SUBSET TraceTexts }
    \cup { << [k |-> "silence_start", v |-> At02], [k |-> "silence_end", v |-> TwoDots] >> }

\* the traces of up to MaxTrace lines, in any order, numbers or not
MaxTrace == 3

TraceLines == {"silence_start", "silence_end"} \X {At02, At20, At35, TwoDots, LoneDot, Signed}

RECURSIVE TraceLists(_)
TraceLists(n) ==
    IF n = 0 THEN { <<>> }
    ELSE { Append(tr, [k |-> l[1], v |-> l[2]]) : tr \in TraceLists(n - 1), l \in TraceLines }

TraceListsUpTo(n) == UNION { TraceLists(k) : k \in 0..n }

\* coarse segment texts: one sentence, two sentences, blank (BlankText), and a
\* text of 62 characters with a clause boundary
RECURSIVE Rep(_, _)
Rep(c, n) == IF n = 0 THEN <<>> ELSE << c >> \o Rep(c, n - 1)

OneSentence == << "a" >>
TwoSentences == << " ", "a", ".", " ", "b" >>
LongClauses == Rep("a", MaxChars - 1) \o << ",", " ", "b" >>

\* coarse kinds << << text, d >>, g >>: a segment starts g after the end of the
\* one before it (the first g after 0, and none before 0) and lasts d.  In
\* ticks: 10003 = 2.0006 s, 25000 = 5.0 s, 5000 = 1.0 s, 5001 = 1.0002 s,
\* -2500 = -0.5 s.
CoarseKinds ==
    { << OneSentence, 10003 >>, << OneSentence, 25000 >>, << TwoSentences, 25000 >>,
      << BlankText, 25000 >>, << LongClauses, 10003 >> }
    \X {5000, 5001, -2500}

NextCoarse(segs, kind) ==
    LET prev  == IF segs = <<>> THEN 0 ELSE segs[Len(segs)].end
        start == Max(0, prev + kind[2])
    IN  [start |-> start, end |-> start + kind[1][2], text |-> kind[1][1]]

RECURSIVE CoarseLists(_)
CoarseLists(n) ==
    IF n = 0 THEN { <<>> }
    ELSE { Append(segs, NextCoarse(segs, k)) : segs \in CoarseLists(n - 1), k \in CoarseKinds }

CoarseListsUpTo(n) == UNION { CoarseLists(k) : k \in 0..n }

\* ------------------------------------------------------------- the pipeline
VARIABLES
    pc,           \* the stage reached: input, segmented, corrected, extended
    words,        \* transcription.words
    coarse,       \* transcription.segments
    trace,        \* the silencedetect trace of the file
    segments,     \* the local variable segments of transcribe_with_groq
    segmented,    \* segments as the segmentation left it
    corrected,    \* segments as the first-start correction left it
    comma_calls,  \* the calls of _split_at_commas: [words, text, chunks]
    coarse_calls, \* what split_long_segments did to each segment: [seg, parts]
    heap,         \* the segment objects after the call of extend_subtitle_duration
    result,       \* the list that call returned, as positions in heap
    audio_segments, \* what a call of detect_audio_segments on its own returned
    srt_content,  \* the cue blocks written so far: [index, start, end, text]
    seconds,      \* the time given to a formatter called on its own
    call,         \* that call: the formatter's name and its flags
    stamp,        \* the text the formatter returned
    parsed,       \* what time_to_seconds returned for that text
    estimated_start,  \* the extrapolated start given to the cross-validation
    best_audio_start, \* what find_nearest_audio_start returned for it
    final_start,      \* what the cross-validation made of the two
    retry,        \* the loop variable of the transcription retry loop
    calls,        \* the number of calls of the recognition API so far
    failures,     \* the errors those calls raised, in order
    sleeps,       \* the waits so far, in seconds
    transcription, \* what the API returned: << >> for None
    raised,       \* the error that left the loop: << >> when none did
    tried,        \* the extractions run so far: [bitrate, ok, size]
    returned      \* what extract_audio_within_limit returned: << >> before

\* the variables of the calls of the formatters and the parser on their own
format_vars == << seconds, call, stamp, parsed >>

\* the variables of the cross-validation run on its own
nearest_vars == << estimated_start, best_audio_start, final_start >>

\* the variables of the retry loop run on its own
retry_vars == << retry, calls, failures, sleeps, transcription, raised >>

\* the variables of extract_audio_within_limit run on its own
extract_vars == << tried, returned >>

\* the variables of all the runs of a part on its own but the formatters'
unit_vars == << nearest_vars, retry_vars, extract_vars >>

\* their values while another part runs
NearestIdle ==
    /\ estimated_start = 0
    /\ best_audio_start = <<>>
    /\ final_start = 0

RetryIdle ==
    /\ retry = 0
    /\ calls = 0
    /\ failures = <<>>
    /\ sleeps = <<>>
    /\ transcription = <<>>
    /\ raised = <<>>

ExtractIdle ==
    /\ tried = <<>>
    /\ returned = <<>>

UnitIdle == NearestIdle /\ RetryIdle /\ ExtractIdle

vars == << pc, words, coarse, trace, segments, segmented, corrected,
           comma_calls, coarse_calls, heap, result, audio_segments,
           srt_content, format_vars, unit_vars >>

\* The inputs are the union of four families: word lists that exercise the
\* segmentation, with an empty trace; shorter word lists that exercise the
\* first-start correction, with every trace; coarse segment lists with no
\* words; and a transcription that has both one word and one coarse segment.
\* Nothing else is set before the pipeline starts.
Init ==
    /\ pc = "input"
    /\ \/ /\ words \in WordListsUpTo(SegKinds, MaxWords)
          /\ coarse = <<>>
          /\ trace = <<>>
       \/ /\ words \in WordListsUpTo(LeadKinds, MaxLeadWords)
          /\ coarse = <<>>
          /\ trace \in Traces
       \/ /\ words = <<>>
          /\ coarse \in CoarseListsUpTo(MaxCoarse)
          /\ trace = <<>>
       \/ /\ words \in WordLists(SegKinds, 1)
          /\ coarse \in CoarseLists(1)
          /\ trace = <<>>
    /\ segments = <<>>
    /\ segmented = <<>>
    /\ corrected = <<>>
    /\ comma_calls = <<>>
    /\ coarse_calls = <<>>
    /\ heap = <<>>
    /\ result = <<>>
    /\ audio_segments = <<>>
    /\ srt_content = <<>>
    /\ seconds = 0
    /\ call = [name |-> "none"]
    /\ stamp = <<>>
    /\ parsed = 0
    /\ UnitIdle

\* the raw segments words_to_sentences hands to _split_at_commas, with the result
RECURSIVE CommaCalls(_, _)
CommaCalls(raw, max_duration) ==
    IF raw = <<>> THEN <<>>
    ELSE LET seg == Head(raw)
             rest == CommaCalls(Tail(raw), max_duration)
         IN  IF seg.end - seg.start <= max_duration THEN rest
             ELSE << [words |-> seg.words,
                      text |-> seg.text,
                      chunks |-> _split_at_commas(seg.words, max_duration)] >> \o rest

\* a variant of SegmentWords that takes the coarse segments when there are any
SegmentWords_CoarseFirst ==
    /\ pc = "input"
    /\ words # <<>>
    /\ segments' = IF coarse # <<>>
                   THEN split_long_segments(coarse, MaxChars, CoarseMaxDuration)
                   ELSE words_to_sentences(words, MaxDuration)
    /\ comma_calls' = CommaCalls(RawSegments(words), MaxDuration)
    /\ segmented' = segments'
    /\ pc' = "segmented"
    /\ UNCHANGED << words, coarse, trace, corrected, coarse_calls, heap, result,
                   audio_segments, srt_content, format_vars, unit_vars >>

\* word-level timestamps are there: rebuild the segments from the words
SegmentWords ==
    /\ pc = "input"
    /\ words # <<>>
    /\ segments' = words_to_sentences(words, MaxDuration)
    /\ comma_calls' = CommaCalls(RawSegments(words), MaxDuration)
    /\ segmented' = segments'
    /\ pc' = "segmented"
    /\ UNCHANGED << words, coarse, trace, corrected, coarse_calls, heap, result,
                   audio_segments, srt_content, format_vars, unit_vars >>

\* no words: fall back to the coarse segments and split the long ones
SegmentCoarse ==
    /\ pc = "input"
    /\ words = <<>>
    /\ coarse # <<>>
    /\ segments' = split_long_segments(coarse, MaxChars, CoarseMaxDuration)
    /\ coarse_calls' = [ i \in 1..Len(coarse) |->
                           [seg |-> coarse[i],
                            parts |-> SplitSegment(coarse[i], MaxChars, CoarseMaxDuration)] ]
    /\ segmented' = segments'
    /\ pc' = "segmented"
    /\ UNCHANGED << words, coarse, trace, corrected, comma_calls, heap, result,
                   audio_segments, srt_content, format_vars, unit_vars >>

\* neither words nor segments
SegmentNothing ==
    /\ pc = "input"
    /\ words = <<>>
    /\ coarse = <<>>
    /\ segments' = <<>>
    /\ segmented' = segments'
    /\ pc' = "segmented"
    /\ UNCHANGED << words, coarse, trace, corrected, comma_calls, coarse_calls, heap,
                   result, audio_segments, srt_content, format_vars, unit_vars >>

\* a variant of SetFirstStart that moves the whole first segment, end included
SetFirstStart_Shift(segs, start) ==
    [ segs EXCEPT ![1].start = start, ![1].end = segs[1].end + (start - segs[1].start) ]

\* segments[0] = dict(segments[0]); segments[0]['start'] = start
SetFirstStart(segs, start) == [ segs EXCEPT ![1].start = start ]

\* the start of the first segment is replaced by the estimate
CorrectFirst ==
    /\ pc = "segmented"
    /\ segments # <<>>
    /\ words # <<>>
    /\ ~ (CallsDetect(words, segments[1]) /\ ~ TraceParses(trace))
    /\ segments' = SetFirstStart(segments,
                        estimate_first_sentence_start(words, segments[1], trace))
    /\ corrected' = segments'
    /\ pc' = "corrected"
    /\ UNCHANGED << words, coarse, trace, segmented, comma_calls, coarse_calls, heap,
                   result, audio_segments, srt_content, format_vars, unit_vars >>

\* the estimate calls detect_audio_segments and a float() in it raises: the
\* ValueError leaves transcribe_with_groq, nothing catches it
CorrectRaises ==
    /\ pc = "segmented"
    /\ segments # <<>>
    /\ words # <<>>
    /\ CallsDetect(words, segments[1])
    /\ ~ TraceParses(trace)
    /\ pc' = "raised"
    /\ UNCHANGED << words, coarse, trace, segments, segmented, corrected, comma_calls,
                   coarse_calls, heap, result, audio_segments, srt_content, format_vars, unit_vars >>

\* no segment, or no words: the correction is skipped
CorrectSkipped ==
    /\ pc = "segmented"
    /\ ~ (segments # <<>> /\ words # <<>>)
    /\ corrected' = segments
    /\ pc' = "corrected"
    /\ UNCHANGED << words, coarse, trace, segments, segmented, comma_calls, coarse_calls,
                   heap, result, audio_segments, srt_content, format_vars, unit_vars >>

\* segments = extend_subtitle_duration(segments): before the call the objects
\* there are are those of segments, in order
Extend ==
    /\ pc = "corrected"
    /\ segments' = extend_subtitle_duration(segments)
    /\ heap' = ExtendCall(segments, RefsOf(segments)).heap
    /\ result' = ExtendCall(segments, RefsOf(segments)).result
    /\ pc' = "extended"
    /\ UNCHANGED << words, coarse, trace, segmented, corrected, comma_calls, coarse_calls,
                   audio_segments, srt_content, format_vars, unit_vars >>

\* a variant of EmitLoop that numbers the blocks it writes 1, 2, 3, ...
RECURSIVE EmitLoop_Renumber(_, _)
EmitLoop_Renumber(segs, i) ==
    IF i > Len(segs) THEN <<>>
    ELSE LET text == Strip(segs[i].text)
             n    == Cardinality({ j \in 1..i : Strip(segs[j].text) # <<>> })
         IN  (IF text # <<>>
              THEN << [index |-> n, start |-> format_timestamp(segs[i].start),
                       end |-> format_timestamp(segs[i].end), text |-> text] >>
              ELSE <<>>)
             \o EmitLoop_Renumber(segs, i + 1)

\* the cue blocks of the segments from position i on: a block for each segment
\* whose text is not blank, numbered by the position of the segment
RECURSIVE EmitLoop(_, _)
EmitLoop(segs, i) ==
    IF i > Len(segs) THEN <<>>
    ELSE LET start == format_timestamp(segs[i].start)
             end   == format_timestamp(segs[i].end)
             text  == Strip(segs[i].text)
         IN  (IF text # <<>>
              THEN << [index |-> i, start |-> start, end |-> end, text |-> text] >>
              ELSE <<>>)
             \o EmitLoop(segs, i + 1)

\* for i, seg in enumerate(segments, 1): srt_content += ...
Emit ==
    /\ pc = "extended"
    /\ srt_content' = EmitLoop(segments, 1)
    /\ pc' = "emitted"
    /\ UNCHANGED << words, coarse, trace, segments, segmented, corrected, comma_calls,
                   coarse_calls, heap, result, audio_segments, format_vars, unit_vars >>

Next ==
    \/ SegmentWords
    \/ SegmentCoarse
    \/ SegmentNothing
    \/ CorrectFirst
    \/ CorrectRaises
    \/ CorrectSkipped
    \/ Extend
    \/ Emit

Spec == Init /\ [][Next]_vars

\* ---------------------------------------- detect_audio_segments on its own
\* The function is called on a trace of any lines and returns or raises.
InitTrace ==
    /\ pc = "trace"
    /\ trace \in TraceListsUpTo(MaxTrace)
    /\ words = <<>>
    /\ coarse = <<>>
    /\ segments = <<>>
    /\ segmented = <<>>
    /\ corrected = <<>>
    /\ comma_calls = <<>>
    /\ coarse_calls = <<>>
    /\ heap = <<>>
    /\ result = <<>>
    /\ audio_segments = <<>>
    /\ srt_content = <<>>
    /\ seconds = 0
    /\ call = [name |-> "none"]
    /\ stamp = <<>>
    /\ parsed = 0
    /\ UnitIdle

DetectReturns ==
    /\ pc = "trace"
    /\ TraceParses(trace)
    /\ audio_segments' = detect_audio_segments(trace)
    /\ pc' = "detected"
    /\ UNCHANGED << words, coarse, trace, segments, segmented, corrected, comma_calls,
                   coarse_calls, heap, result, srt_content, format_vars, unit_vars >>

\* a float() of line 505 or 506 raises ValueError
DetectRaises ==
    /\ pc = "trace"
    /\ ~ TraceParses(trace)
    /\ pc' = "raised"
    /\ UNCHANGED << words, coarse, trace, segments, segmented, corrected, comma_calls,
                   coarse_calls, heap, result, audio_segments, srt_content, format_vars, unit_vars >>

NextTrace ==
    \/ DetectReturns
    \/ DetectRaises

SpecTrace == InitTrace /\ [][NextTrace]_vars

\* ------------------------------------- the formatters and the parser on their own
\* A formatter is called on a time and time_to_seconds on the text it returns.
\* The times are whole milliseconds under 100 hours, and two times that are
\* not: 59.9996 s and 3599.9996 s.
HourValues == {0, 1, 99}
MinuteValues == {0, 23, 59}
SecondValues == {0, 45, 59}
MilliValues == {0, 1, 500, 677, 678, 999}

Times ==
    { (((h * 60 + mi) * 60 + sec) * MsPerSecond + m) * TicksPerMs :
        h \in HourValues, mi \in MinuteValues, sec \in SecondValues, m \in MilliValues }
    \cup { 60 * MsPerSecond * TicksPerMs - 2, 3600 * MsPerSecond * TicksPerMs - 2 }

InitFormat ==
    /\ pc = "time"
    /\ seconds \in Times
    /\ call = [name |-> "none"]
    /\ stamp = <<>>
    /\ parsed = 0
    /\ words = <<>>
    /\ coarse = <<>>
    /\ trace = <<>>
    /\ segments = <<>>
    /\ segmented = <<>>
    /\ corrected = <<>>
    /\ comma_calls = <<>>
    /\ coarse_calls = <<>>
    /\ heap = <<>>
    /\ result = <<>>
    /\ audio_segments = <<>>
    /\ srt_content = <<>>
    /\ UnitIdle

pipeline_vars == << words, coarse, trace, segments, segmented, corrected, comma_calls,
                    coarse_calls, heap, result, audio_segments, srt_content >>

FormatTimestamp ==
    /\ pc = "time"
    /\ call' = [name |-> "format_timestamp"]
    /\ stamp' = format_timestamp(seconds)
    /\ pc' = "formatted"
    /\ UNCHANGED << seconds, parsed, pipeline_vars, unit_vars >>

SecondsToTime ==
    /\ pc = "time"
    /\ \E include_hours \in BOOLEAN, use_comma \in BOOLEAN :
          /\ call' = [name |-> "seconds_to_time", include_hours |-> include_hours,
                      use_comma |-> use_comma]
          /\ stamp' = seconds_to_time(seconds, include_hours, use_comma)
    /\ pc' = "formatted"
    /\ UNCHANGED << seconds, parsed, pipeline_vars, unit_vars >>

ParseReturns ==
    /\ pc = "formatted"
    /\ TimeParses(stamp)
    /\ parsed' = time_to_seconds(stamp)
    /\ pc' = "parsed"
    /\ UNCHANGED << seconds, call, stamp, pipeline_vars, unit_vars >>

\* an int() or the float() of time_to_seconds raises ValueError
ParseRaises ==
    /\ pc = "formatted"
    /\ ~ TimeParses(stamp)
    /\ pc' = "raised"
    /\ UNCHANGED << seconds, call, stamp, parsed, pipeline_vars, unit_vars >>

NextFormat ==
    \/ FormatTimestamp
    \/ SecondsToTime
    \/ ParseReturns
    \/ ParseRaises

SpecFormat == InitFormat /\ [][NextFormat]_vars

\* ------------------------------------------ the cross-validation on its own
\* Lines 457-465 of estimate_first_sentence_start are run on an extrapolated
\* start and a list of audio intervals of any kind detect_audio_segments can
\* return: the starts increase, and a silence of 0.3 s or more (1500 ticks)
\* lies between two intervals.
MaxIntervals == 3

\* starts of audio intervals, in ticks: 0, 0.5, 2.0, 3.0, 3.5, 4.5, 4.55 and
\* 6.0 s
AudioStarts == {0, 2500, 10000, 15000, 17500, 22500, 22750, 30000}

\* extrapolated starts: -0.05 s, 0 s, 2.5 s, 5.65 s
EstimatedStarts == {-250, 0, 12500, 28250}

IntervalAt(start) == [start |-> start, end |-> start + 250]

RECURSIVE IntervalLists(_)
IntervalLists(n) ==
    IF n = 0 THEN { <<>> }
    ELSE UNION { { Append(l, IntervalAt(a)) :
                     a \in { b \in AudioStarts :
                               l = <<>> \/ b >= l[Len(l)].end + 1500 } } :
                 l \in IntervalLists(n - 1) }

InitNearest ==
    /\ pc = "estimate"
    /\ audio_segments \in UNION { IntervalLists(k) : k \in 0..MaxIntervals }
    /\ estimated_start \in EstimatedStarts
    /\ best_audio_start = <<>>
    /\ final_start = 0
    /\ words = <<>>
    /\ coarse = <<>>
    /\ trace = <<>>
    /\ segments = <<>>
    /\ segmented = <<>>
    /\ corrected = <<>>
    /\ comma_calls = <<>>
    /\ coarse_calls = <<>>
    /\ heap = <<>>
    /\ result = <<>>
    /\ srt_content = <<>>
    /\ seconds = 0
    /\ call = [name |-> "none"]
    /\ stamp = <<>>
    /\ parsed = 0
    /\ RetryIdle
    /\ ExtractIdle

\* best_audio_start = find_nearest_audio_start(...), then the later of the two
\* or the estimate alone, then max(0, final_start)
CrossValidateNearest ==
    /\ pc = "estimate"
    /\ best_audio_start' = find_nearest_audio_start(audio_segments, estimated_start, Tolerance)
    /\ final_start' = CrossValidate(estimated_start, best_audio_start')
    /\ pc' = "validated"
    /\ UNCHANGED << words, coarse, trace, segments, segmented, corrected, comma_calls,
                   coarse_calls, heap, result, audio_segments, srt_content,
                   format_vars, estimated_start, retry_vars, extract_vars >>

NextNearest == CrossValidateNearest

SpecNearest == InitNearest /\ [][NextNearest]_vars

\* ------------------------------------------------ the retry loop on its own
\* Lines 120-151 of transcribe_with_groq: the recognition API is called, and
\* a call returns a transcription or raises an Exception that has a message
\* and may have a status_code.
max_retries == 3

UpperCase == << "A", "B", "C", "D", "E", "F", "G", "H", "I", "J", "K", "L", "M", "N", "O", "P", "Q", "R", "S", "T", "U", "V", "W", "X", "Y", "Z" >>

\* str.lower() on a text of ASCII characters: the lower-case letter of an
\* upper-case one, every other character as it is
LowerChar(c) ==
    LET lower == << "a", "b", "c", "d", "e", "f", "g", "h", "i", "j", "k", "l", "m", "n", "o", "p", "q", "r", "s", "t", "u", "v", "w", "x", "y", "z" >>
    IN  IF \E i \in 1..Len(UpperCase) : UpperCase[i] = c
        THEN lower[CHOOSE i \in 1..Len(UpperCase) : UpperCase[i] = c]
        ELSE c

Lower(text) == [ i \in 1..Len(text) |-> LowerChar(text[i]) ]

\* sub in text
Contains(text, sub) ==
    \E i \in 1..(Len(text) - Len(sub) + 1) : SubSeq(text, i, i + Len(sub) - 1) = sub

\* the messages of the errors: 'timeout', 'Rate limit', 'bad auth', 'Invalid key'
Messages ==
    { << "t", "i", "m", "e", "o", "u", "t" >>,
      << "R", "a", "t", "e", " ", "l", "i", "m", "i", "t" >>,
      << "b", "a", "d", " ", "a", "u", "t", "h" >>,
      << "I", "n", "v", "a", "l", "i", "d", " ", "k", "e", "y" >> }

\* getattr(e, 'status_code', None): << >> for None
StatusCodes == { <<>>, <<401>>, <<403>>, <<404>>, <<422>>, <<429>>, <<500>> }

Errors == [ status_code : StatusCodes, message : Messages ]

\* a variant of NonRetryable that looks at the status code alone
NonRetryable_StatusOnly(e) ==
    e.status_code \in { <<401>>, <<403>>, <<404>>, <<422>> }

\* status_code in (401, 403, 404, 422) or 'auth' in error_str or 'invalid' in error_str
NonRetryable(e) ==
    LET error_str == Lower(e.message)
    IN  \/ e.status_code \in { <<401>>, <<403>>, <<404>>, <<422>> }
        \/ Contains(error_str, << "a", "u", "t", "h" >>)
        \/ Contains(error_str, << "i", "n", "v", "a", "l", "i", "d" >>)

\* wait = (retry + 1) * 2
WaitOf(r) == (r + 1) * 2

InitRetry ==
    /\ pc = "call"
    /\ RetryIdle
    /\ NearestIdle
    /\ ExtractIdle
    /\ words = <<>>
    /\ coarse = <<>>
    /\ trace = <<>>
    /\ segments = <<>>
    /\ segmented = <<>>
    /\ corrected = <<>>
    /\ comma_calls = <<>>
    /\ coarse_calls = <<>>
    /\ heap = <<>>
    /\ result = <<>>
    /\ audio_segments = <<>>
    /\ srt_content = <<>>
    /\ seconds = 0
    /\ call = [name |-> "none"]
    /\ stamp = <<>>
    /\ parsed = 0

retry_frame == << words, coarse, trace, segments, segmented, corrected, comma_calls,
                  coarse_calls, heap, result, audio_segments, srt_content,
                  format_vars, nearest_vars, extract_vars >>

\* the call returns: break
CallReturns ==
    /\ pc = "call"
    /\ retry < max_retries
    /\ calls' = calls + 1
    /\ transcription' = << "transcription" >>
    /\ pc' = "done"
    /\ UNCHANGED << retry, failures, sleeps, raised, retry_frame >>

\* the call raises an error that must not be retried: raise
CallRaisesNonRetryable ==
    /\ pc = "call"
    /\ retry < max_retries
    /\ \E e \in Errors :
          /\ NonRetryable(e)
          /\ failures' = Append(failures, e)
          /\ raised' = << e >>
    /\ calls' = calls + 1
    /\ pc' = "raised"
    /\ UNCHANGED << retry, sleeps, transcription, retry_frame >>

\* the call raises another error and a turn is left: sleep, then the next turn
CallRaisesAndWaits ==
    /\ pc = "call"
    /\ retry < max_retries - 1
    /\ \E e \in Errors :
          /\ ~ NonRetryable(e)
          /\ failures' = Append(failures, e)
    /\ calls' = calls + 1
    /\ sleeps' = Append(sleeps, WaitOf(retry))
    /\ retry' = retry + 1
    /\ UNCHANGED << pc, transcription, raised, retry_frame >>

\* the call raises another error in the last turn: raise
CallRaisesLast ==
    /\ pc = "call"
    /\ retry = max_retries - 1
    /\ \E e \in Errors :
          /\ ~ NonRetryable(e)
          /\ failures' = Append(failures, e)
          /\ raised' = << e >>
    /\ calls' = calls + 1
    /\ pc' = "raised"
    /\ UNCHANGED << retry, sleeps, transcription, retry_frame >>

NextRetry ==
    \/ CallReturns
    \/ CallRaisesNonRetryable
    \/ CallRaisesAndWaits
    \/ CallRaisesLast

\* a call of the API and a sleep both come to an end
SpecRetry == InitRetry /\ [][NextRetry]_vars /\ WF_vars(NextRetry)

\* --------------------------------------- extract_audio_within_limit on its own
\* Lines 38-63: each turn of the loop runs extract_audio at one bitrate; the
\* extraction fails or writes a file of some size.
MAX_FILE_SIZE_MB == 25
\* 1024 * 1024
BytesPerMB == 1048576

bitrates == << "64k", "32k", "16k" >>

\* Path(audio_path).stat().st_size, in bytes: 1 MB, 25 500 000 bytes, one byte
\* less than 25 MB, 25 MB, one byte more, 40 MB
FileSizes ==
    { BytesPerMB, 25500000, 25 * BytesPerMB - 1, 25 * BytesPerMB, 25 * BytesPerMB + 1,
      40 * BytesPerMB }

\* a variant of WithinLimit that lets a file of just 25 MB pass
WithinLimit_Inclusive(st_size) == st_size <= MAX_FILE_SIZE_MB * BytesPerMB

\* file_size_mb < MAX_FILE_SIZE_MB, with file_size_mb = st_size / (1024 * 1024)
WithinLimit(st_size) == st_size < MAX_FILE_SIZE_MB * BytesPerMB

InitExtract ==
    /\ pc = "extract"
    /\ ExtractIdle
    /\ NearestIdle
    /\ RetryIdle
    /\ words = <<>>
    /\ coarse = <<>>
    /\ trace = <<>>
    /\ segments = <<>>
    /\ segmented = <<>>
    /\ corrected = <<>>
    /\ comma_calls = <<>>
    /\ coarse_calls = <<>>
    /\ heap = <<>>
    /\ result = <<>>
    /\ audio_segments = <<>>
    /\ srt_content = <<>>
    /\ seconds = 0
    /\ call = [name |-> "none"]
    /\ stamp = <<>>
    /\ parsed = 0

extract_frame == << words, coarse, trace, segments, segmented, corrected, comma_calls,
                    coarse_calls, heap, result, audio_segments, srt_content,
                    format_vars, nearest_vars, retry_vars >>

\* the end of a turn that did not return: the next bitrate, or return False
\* after the last one
NextTurn(turns) ==
    /\ tried' = turns
    /\ IF Len(turns) < Len(bitrates)
       THEN UNCHANGED << pc, returned >>
       ELSE returned' = << FALSE >> /\ pc' = "returned"
    /\ UNCHANGED extract_frame

\* extract_audio returns False: continue
ExtractFails ==
    /\ pc = "extract"
    /\ NextTurn(Append(tried, [bitrate |-> bitrates[Len(tried) + 1], ok |-> FALSE,
                               size |-> <<>>]))

\* the file is under the limit: return True
ExtractFits ==
    /\ pc = "extract"
    /\ \E st_size \in FileSizes :
          /\ WithinLimit(st_size)
          /\ tried' = Append(tried, [bitrate |-> bitrates[Len(tried) + 1], ok |-> TRUE,
                                     size |-> << st_size >>])
    /\ returned' = << TRUE >>
    /\ pc' = "returned"
    /\ UNCHANGED extract_frame

\* the file is still too large: on to a lower bitrate
ExtractTooLarge ==
    /\ pc = "extract"
    /\ \E st_size \in FileSizes :
          /\ ~ WithinLimit(st_size)
          /\ NextTurn(Append(tried, [bitrate |-> bitrates[Len(tried) + 1], ok |-> TRUE,
                                     size |-> << st_size >>]))

NextExtract ==
    \/ ExtractFails
    \/ ExtractFits
    \/ ExtractTooLarge

SpecExtract == InitExtract /\ [][NextExtract]_vars

\* ---------------------------------------------------------------- claims
\* Definitions the claims are stated with.  They restate the claims' own terms
\* (window, reliable word, extrapolated start, nearest millisecond) from the
\* state, without the operators that compute them in the model of the code.

Last(seq) == seq[Len(seq)]

\* start <= end in every segment of a list
AllStartLeEnd(segs) == \A i \in 1..Len(segs) : segs[i].start <= segs[i].end

\* the word list obeys the data model in full: every word ends no earlier than
\* it starts (starts never decrease in any list of the inputs)
WellFormedWords ==
    /\ \A i \in 1..Len(words) : words[i].end >= words[i].start
    /\ \A i \in 1..(Len(words) - 1) : words[i].start <= words[i + 1].start

\* the words of a text: its maximal runs of characters other than the space
RECURSIVE TokensLoop(_, _, _)
TokensLoop(text, cur, out) ==
    IF text = <<>> THEN (IF cur # <<>> THEN Append(out, cur) ELSE out)
    ELSE IF Head(text) = " "
         THEN TokensLoop(Tail(text), <<>>, IF cur # <<>> THEN Append(out, cur) ELSE out)
         ELSE TokensLoop(Tail(text), Append(cur, Head(text)), out)

Tokens(text) == TokensLoop(text, <<>>, <<>>)

\* the words of all the segments of a list, in order
RECURSIVE SegmentTokens(_)
SegmentTokens(segs) ==
    IF segs = <<>> THEN <<>> ELSE Tokens(Head(segs).text) \o SegmentTokens(Tail(segs))

\* the trimmed texts of the non-blank words of a list, in order
RECURSIVE WordTokens(_)
WordTokens(ws) ==
    IF ws = <<>> THEN <<>>
    ELSE Tokens(Head(ws).word) \o WordTokens(Tail(ws))

\* the number of words in the first j chunks of a list
RECURSIVE WordsIn(_, _)
WordsIn(chunks, j) ==
    IF j = 0 THEN 0 ELSE Len(Tokens(chunks[j].text)) + WordsIn(chunks, j - 1)

\* the whole millisecond nearest to t
NearestMs(t) == CHOOSE m \in (t - 2)..(t + 2) : m % TicksPerMs = 0

\* the first-start correction has acted
Corrected == pc \in {"corrected", "extended"} /\ words # <<>> /\ segmented # <<>>

\* the candidate window of the correction: the longest prefix of the words
\* whose starts are all within 1.0 s after the end of the first segment
LeadWindowLen ==
    LET ok(k) == \A j \in 1..k : words[j].start <= segmented[1].end + 5000
    IN  CHOOSE k \in 0..Len(words) : ok(k) /\ (k < Len(words) => ~ ok(k + 1))

\* the positions of the reliable words of the window
LeadReliable ==
    { i \in 1..LeadWindowLen :
        words[i].end - words[i].start > 0 /\ words[i].end - words[i].start < 5000 }

\* the position r + 1 of the first reliable word, when there is one
LeadFirst == CHOOSE i \in LeadReliable : \A j \in LeadReliable : i <= j

\* word[r].start - r * 0.35 s
LeadExtrapolated == words[LeadFirst].start - (LeadFirst - 1) * 1750

\* the audio intervals of the file
Intervals == detect_audio_segments(trace)

\* the starts of the audio intervals within 2.0 s of the extrapolated start
LeadMatches ==
    { Intervals[i].start : i \in { j \in 1..Len(Intervals) :
        Abs(Intervals[j].start - LeadExtrapolated) <= 10000 } }

\* C1: in the word-level pipeline, with words that start in order and end no
\* earlier than they start, every segment has start <= end after every stage.
C1_StartLeEndAfterEachStage ==
    (words # <<>> /\ WellFormedWords /\ pc # "input") => AllStartLeEnd(segments)

\* C2: the final segment list of the pipeline is ordered by start.
C2_FinalOrderedByStart ==
    pc = "extended" =>
        \A i \in 1..(Len(segments) - 1) : segments[i].start <= segments[i + 1].start

\* C3: after extend_subtitle_duration no segment ends after the next one starts.
C3_NoOverlapAfterExtend ==
    pc = "extended" =>
        \A i \in 1..(Len(segments) - 1) : segments[i].end <= segments[i + 1].start

\* C4: a segment whose gap to the next one is at most 1.0 s ends, after the
\* extension, exactly where the next one starts, and that start is unchanged.
C4_GapClosed ==
    pc = "extended" =>
        \A i \in 1..(Len(corrected) - 1) :
            corrected[i + 1].start - corrected[i].end <= 5000 =>
                /\ segments[i].end = segments[i + 1].start
                /\ segments[i + 1].start = corrected[i + 1].start

\* C4 witness: a positive gap of at most 1.0 s was closed
C4_Witness ==
    /\ pc = "extended"
    /\ \E i \in 1..(Len(corrected) - 1) :
          /\ corrected[i + 1].start - corrected[i].end <= 5000
          /\ corrected[i + 1].start - corrected[i].end > 0
          /\ segments[i].end = corrected[i + 1].start

\* C5: the words of the segments of words_to_sentences, in order, are the
\* non-blank input words, in order, each once.
C5_Partition ==
    (pc # "input" /\ words # <<>>) => SegmentTokens(segmented) = WordTokens(words)

\* C5 witness: a list with a blank word, whose other words are split at a comma
C5_Witness ==
    /\ pc = "segmented"
    /\ \E i \in 1..Len(words) : Tokens(words[i].word) = <<>>
    /\ \E c \in 1..Len(comma_calls) : Len(comma_calls[c].chunks) >= 2

\* C6 as stated: the chunks of _split_at_commas start at the first word's
\* start, end at the last word's end, and each ends where the next starts.
C6_ChunksContiguous ==
    \A c \in 1..Len(comma_calls) :
        LET ws == comma_calls[c].words
            chunks == comma_calls[c].chunks
        IN  /\ chunks[1].start = ws[1].start
            /\ Last(chunks).end = Last(ws).end
            /\ \A j \in 1..(Len(chunks) - 1) : chunks[j].end = chunks[j + 1].start

\* C6 amended: the chunks start at the first word's start and end at the last
\* word's end; a chunk ends at the end of its last word, which ends with a
\* comma, and the next chunk starts at the start of the word after it.
C6_ChunksFollowWords ==
    \A c \in 1..Len(comma_calls) :
        LET ws == comma_calls[c].words
            chunks == comma_calls[c].chunks
        IN  /\ chunks[1].start = ws[1].start
            /\ Last(chunks).end = Last(ws).end
            /\ WordsIn(chunks, Len(chunks)) = Len(ws)
            /\ \A j \in 1..(Len(chunks) - 1) :
                  LET k == WordsIn(chunks, j)
                  IN  /\ Last(Last(Tokens(ws[k].word))) = ","
                      /\ chunks[j].end = ws[k].end
                      /\ chunks[j + 1].start = ws[k + 1].start

\* C6 witness: a split that leaves a gap between two chunks of several words
C6_Witness ==
    /\ pc = "segmented"
    /\ \E c \in 1..Len(comma_calls) :
          /\ Len(comma_calls[c].chunks) >= 2
          /\ Len(Tokens(comma_calls[c].chunks[1].text)) >= 2
          /\ comma_calls[c].chunks[1].end < comma_calls[c].chunks[2].start

\* the coarse segments that split_long_segments split into two or more parts
SplitCalls == { c \in 1..Len(coarse_calls) : Len(coarse_calls[c].parts) >= 2 }

C8_Extrapolated ==
    (Corrected /\ LeadReliable # {} /\ LeadFirst > 1 /\ Intervals = <<>>) =>
        corrected[1].start = (IF LeadExtrapolated >= 0 THEN LeadExtrapolated ELSE 0)

\* C8 witness: words (0.0, 3.0), (3.0, 3.3), (3.3, 3.6) give 2.65 s
C8_Witness ==
    /\ Corrected
    /\ Intervals = <<>>
    /\ Len(words) = 3
    /\ << words[1].start, words[1].end >> = << 0, 15000 >>
    /\ << words[2].start, words[2].end >> = << 15000, 16500 >>
    /\ << words[3].start, words[3].end >> = << 16500, 18000 >>
    /\ Len(segmented) = 1
    /\ corrected[1].start = 13250

\* C9: with the first reliable word at index r > 0 the corrected start is never
\* before max(0, word[r].start - r * 0.35 s); with an audio interval within
\* 2.0 s it is the later of the extrapolated start and such an interval's
\* start, and 0 when that is negative.
C9_NeverEarlier ==
    (Corrected /\ LeadReliable # {} /\ LeadFirst > 1) =>
        /\ corrected[1].start >= 0
        /\ corrected[1].start >= LeadExtrapolated
        /\ LeadMatches # {} =>
              \E a \in LeadMatches :
                  corrected[1].start =
                      (IF a >= LeadExtrapolated THEN a ELSE LeadExtrapolated)

\* C9 witness: a matched interval moved the start later than the extrapolation
C9_Witness ==
    /\ Corrected
    /\ LeadReliable # {}
    /\ LeadFirst > 1
    /\ LeadExtrapolated > 0
    /\ \E a \in LeadMatches : a > LeadExtrapolated /\ corrected[1].start = a

\* the positions of the audio intervals that start before the first segment's end
LeadBefore == { i \in 1..Len(Intervals) : Intervals[i].start < segmented[1].end }

C11_CorrectionFrame ==
    [][ (pc = "segmented" /\ pc' = "corrected") =>
            /\ words' = words
            /\ trace' = trace
            /\ Len(segments') = Len(segments)
            /\ \A i \in 1..Len(segments) :
                  /\ segments'[i].end = segments[i].end
                  /\ segments'[i].text = segments[i].text
                  /\ i > 1 => segments'[i].start = segments[i].start ]_vars

\* the correction has moved the first start of a list of two segments or more
C11_Witness ==
    /\ Corrected
    /\ Len(corrected) >= 2
    /\ corrected[1].start # segmented[1].start
    /\ corrected[1].end = segmented[1].end
    /\ corrected[2] = segmented[2]

\* C12: extend_subtitle_duration leaves its input as it was: after the call
\* every object of the input list has the start, end and text it had before,
\* no object of the returned list is an object of the input list, and a
\* second call on the same input list returns the same segments.
C12_InputUntouched ==
    pc = "extended" =>
        /\ \A i \in 1..Len(corrected) : heap[i] = corrected[i]
        /\ \A j \in 1..Len(result) : result[j] \notin 1..Len(corrected)
        /\ LET again == ExtendCall(heap, RefsOf(corrected))
           IN  Deref(again.heap, again.result) = segments

\* the call has moved the end of a segment of a list of two or more
C12_Witness ==
    /\ pc = "extended"
    /\ Len(corrected) >= 2
    /\ \E i \in 1..Len(corrected) : segments[i].end # corrected[i].end

\* C13: extend_subtitle_duration adds exactly 1.0 s to the end of the last
\* segment and to the end of every other segment whose gap to the next start
\* is more than 1.0 s, which leaves a gap of the original gap less 1.0 s, still
\* above zero; it changes no start and no text.
C13_ExtendedByExactlyOneSecond ==
    pc = "extended" =>
        LET n == Len(corrected)
            gap(i) == corrected[i + 1].start - corrected[i].end
        IN  /\ Len(segments) = n
            /\ n > 0 => segments[n].end = corrected[n].end + 5000
            /\ \A i \in 1..(n - 1) : gap(i) > 5000 =>
                  /\ segments[i].end = corrected[i].end + 5000
                  /\ segments[i + 1].start - segments[i].end = gap(i) - 5000
                  /\ segments[i + 1].start - segments[i].end > 0
            /\ \A i \in 1..n : /\ segments[i].start = corrected[i].start
                                /\ segments[i].text = corrected[i].text

\* the segments of a list start in order
OrderedByStart(segs) ==
    \A i \in 1..(Len(segs) - 1) : segs[i].start <= segs[i + 1].start

\* segment i of a list ends after the next one starts
Overlaps(segs, i) == i < Len(segs) /\ segs[i].end > segs[i + 1].start

\* C14 as stated: for a segment list ordered by start, extend_subtitle_duration
\* leaves every end at or after the end it had.
C14_EndsNeverBackward ==
    (pc = "extended" /\ OrderedByStart(corrected)) =>
        \A i \in 1..Len(corrected) : segments[i].end >= corrected[i].end

\* C14, amended: a segment that ends no later than the next one starts, and
\* the last segment, end at or after the end they had; a segment that ends
\* after the next one starts ends, afterwards, at that start, which is earlier.
C14_EndsForwardWithoutOverlap ==
    pc = "extended" =>
        \A i \in 1..Len(corrected) :
            IF Overlaps(corrected, i)
            THEN /\ segments[i].end = corrected[i + 1].start
                 /\ segments[i].end < corrected[i].end
            ELSE segments[i].end >= corrected[i].end

\* a list ordered by start, made from words that end no earlier than they
\* start, with an overlap that is cut back and a last end that is moved on
C14_Witness ==
    /\ pc = "extended"
    /\ words # <<>>
    /\ WellFormedWords
    /\ OrderedByStart(corrected)
    /\ \E i \in 1..Len(corrected) :
          Overlaps(corrected, i) /\ segments[i].end < corrected[i].end
    /\ Last(segments).end > Last(corrected).end

\* the silence_end and silence_start values of the trace, in trace order
SilenceEnds == TraceValues(trace, "silence_end")
SilenceStarts == TraceValues(trace, "silence_start")

\* the positions of the silence_start values greater than silence_end value i
StartsAfter(i) == { j \in 1..Len(SilenceStarts) : SilenceStarts[j] > SilenceEnds[i] }

\* the silence_end values that have such a silence_start
Paired == { i \in 1..Len(SilenceEnds) : StartsAfter(i) # {} }

\* C15: detect_audio_segments emits one interval for each silence_end value e
\* that has a silence_start value greater than e, in the order of the
\* silence_end values, from e to the first such silence_start value in trace
\* order, and nothing for any other e; every interval has start < end.
C15_IntervalPairing ==
    pc = "detected" =>
        /\ Len(audio_segments) = Cardinality(Paired)
        /\ \A i \in Paired :
              LET m == Cardinality({ j \in Paired : j <= i })
                  first == CHOOSE j \in StartsAfter(i) : \A h \in StartsAfter(i) : j <= h
              IN  audio_segments[m] = [start |-> SilenceEnds[i], end |-> SilenceStarts[first]]
        /\ \A m \in 1..Len(audio_segments) : audio_segments[m].start < audio_segments[m].end

\* a trace with an interval emitted and a silence_end value dropped
C15_Witness ==
    /\ pc = "detected"
    /\ audio_segments # <<>>
    /\ Paired # {}
    /\ \E i \in 1..Len(SilenceEnds) : i \notin Paired

\* C16: on every silence trace, an empty one and one with a text after the key
\* that is no number (digits with two dots, a lone dot) included,
\* detect_audio_segments returns a list and never ends with a parse error.
C16_ParserNeverRaises ==
    /\ pc # "raised"
    /\ (pc = "detected" /\ Paired = {}) => audio_segments = <<>>

\* C17: with no words and no coarse segments the pipeline raises nothing and
\* every stage leaves an empty list: the segment list is empty after the
\* segmentation, the first-start correction is skipped, the extension returns
\* an empty list and no cue block is written; and each of words_to_sentences,
\* split_long_segments and extend_subtitle_duration returns an empty list for
\* an empty list.
C17_EmptyInEmptyOut ==
    /\ words_to_sentences(<<>>, MaxDuration) = <<>>
    /\ split_long_segments(<<>>, MaxChars, CoarseMaxDuration) = <<>>
    /\ extend_subtitle_duration(<<>>) = <<>>
    /\ (words = <<>> /\ coarse = <<>>) =>
          /\ pc # "raised"
          /\ segments = <<>>
          /\ segmented = <<>>
          /\ corrected = <<>>
          /\ srt_content = <<>>

\* the pipeline has run to its end on an empty input
C17_Witness ==
    /\ words = <<>>
    /\ coarse = <<>>
    /\ pc = "emitted"
    /\ srt_content = <<>>

\* C18: whatever the words, one that ends before it starts included, every
\* segment words_to_sentences returns and every chunk _split_at_commas returns
\* has end >= start.
C18_NoNegativeSpan ==
    words # <<>> =>
        /\ AllStartLeEnd(segmented)
        /\ \A c \in 1..Len(comma_calls) : AllStartLeEnd(comma_calls[c].chunks)

\* the digits of n at a width of two and of three
TwoDigits(n) == << Digits[(n \div 10) + 1], Digits[(n % 10) + 1] >>
ThreeDigits(n) == << Digits[(n \div 100) + 1] >> \o TwoDigits(n % 100)

\* the time given to the formatter, in whole milliseconds
TimeMs == seconds \div TicksPerMs

\* C19: for a time of whole milliseconds under 100 hours format_timestamp
\* returns HH:MM:SS,mmm with HH the whole hours, MM the whole minutes of the
\* rest, SS the whole seconds of the rest and mmm the milliseconds of the time
\* mod 1000, at widths 2, 2, 2 and 3 with zeros in front.
C19_TimestampFields ==
    (pc \in {"formatted", "parsed", "raised"} /\ call.name = "format_timestamp"
        /\ seconds % TicksPerMs = 0 /\ TimeMs < 100 * 3600 * 1000) =>
        stamp = TwoDigits(TimeMs \div 3600000) \o << ":" >>
                \o TwoDigits((TimeMs % 3600000) \div 60000) \o << ":" >>
                \o TwoDigits((TimeMs % 60000) \div 1000) \o << "," >>
                \o ThreeDigits(TimeMs % 1000)

\* the text is an SRT timestamp: format_timestamp wrote it, or seconds_to_time
\* with use_comma
SrtStamp ==
    \/ call.name = "format_timestamp"
    \/ call.name = "seconds_to_time" /\ call.use_comma

\* C20: time_to_seconds, called on the SRT timestamp a formatter wrote for a
\* time of whole milliseconds under 100 hours, returns that time to within
\* 1 ms.
C20_RoundTrip ==
    (pc \in {"parsed", "raised"} /\ SrtStamp
        /\ seconds % TicksPerMs = 0 /\ TimeMs < 100 * 3600 * 1000) =>
        /\ pc = "parsed"
        /\ Abs(parsed - seconds) <= 1 * TicksPerMs

\* a text has a character that is no white space
NonBlank(text) == \E i \in 1..Len(text) : text[i] \notin {" ", "\t", "\n"}

\* C21: the index of every cue written is the position, from 1, of its segment
\* in the final list, so the indexes grow strictly; a segment has a cue exactly
\* when its text is not blank, so the indexes missing are those of the blank
\* segments, and with no blank segment the indexes are 1..n.
C21_CueIndexes ==
    pc = "emitted" =>
        /\ \A c \in 1..Len(srt_content) :
              /\ srt_content[c].index \in 1..Len(segments)
              /\ NonBlank(segments[srt_content[c].index].text)
              /\ srt_content[c].text = Strip(segments[srt_content[c].index].text)
        /\ \A c \in 1..(Len(srt_content) - 1) :
              srt_content[c].index < srt_content[c + 1].index
        /\ \A i \in 1..Len(segments) :
              NonBlank(segments[i].text) <=>
                  \E c \in 1..Len(srt_content) : srt_content[c].index = i
        /\ (\A i \in 1..Len(segments) : NonBlank(segments[i].text)) =>
              /\ Len(srt_content) = Len(segments)
              /\ \A c \in 1..Len(srt_content) : srt_content[c].index = c

\* cues written after a blank segment that has none: an index is missing
C21_Witness ==
    /\ pc = "emitted"
    /\ \E i \in 1..Len(segments) : ~ NonBlank(segments[i].text)
    /\ \E c \in 1..Len(srt_content) : srt_content[c].index > c

\* a word of a list, other than the last, whose trimmed text ends with a comma
HasCommaWord(ws) ==
    \E i \in 1..(Len(ws) - 1) : Tokens(ws[i].word) # <<>> /\ Last(Last(Tokens(ws[i].word))) = ","

\* a character of . ? ! , ; : followed by white space somewhere in a text
HasSplitPoint(text) ==
    \E i \in 1..(Len(text) - 1) :
        text[i] \in {".", "?", "!", ",", ";", ":"} /\ text[i + 1] \in {" ", "\t", "\n"}

\* a coarse segment is over the budget of 60 characters or of 4.0 s
OverBudget(seg) == Len(Strip(seg.text)) > 60 \/ seg.end - seg.start > 20000

\* C22: a unit that must be split and has no split point comes back as one
\* segment with its start, end and text: from _split_at_commas when no word
\* but the last ends with a comma, from split_long_segments when no sentence
\* or clause punctuation followed by white space is in the text (an empty or
\* blank text included).
C22_UnsplittableUnchanged ==
    /\ \A c \in 1..Len(comma_calls) :
          ~ HasCommaWord(comma_calls[c].words) =>
              comma_calls[c].chunks =
                  << [start |-> comma_calls[c].words[1].start,
                      end   |-> Last(comma_calls[c].words).end,
                      text  |-> comma_calls[c].text] >>
    /\ \A c \in 1..Len(coarse_calls) :
          (OverBudget(coarse_calls[c].seg) /\ ~ HasSplitPoint(coarse_calls[c].seg.text)) =>
              coarse_calls[c].parts = << coarse_calls[c].seg >>

\* _split_at_commas was called on a sentence of two words or more, over
\* max_duration, with no comma to split at
C22_Witness ==
    \E c \in 1..Len(comma_calls) :
        /\ Len(comma_calls[c].words) >= 2
        /\ ~ HasCommaWord(comma_calls[c].words)
        /\ Len(comma_calls[c].chunks) = 1
        /\ comma_calls[c].chunks[1].end - comma_calls[c].chunks[1].start > MaxDuration

\* a duration is at least 0.4 times the max_duration of words_to_sentences
AtLeastMinChunk(duration) == duration * 10 >= 4 * 30000

\* the word a comma-ended word belongs to is the last of a chunk of the call
EndsChunk(chunks, i) == \E j \in 1..Len(chunks) : WordsIn(chunks, j) = i

\* C23: every chunk _split_at_commas returns, but the last, ends on a word
\* that ends with a comma, and from its first word's start to its last word's
\* end is at least 0.4 * max_duration; a comma-ended word, not the last, on
\* which no chunk ends closes a run shorter than that, counted from the first
\* word of its chunk; and the words after the last chunk so cut make the last
\* chunk, whatever its length.
C23_ChunkRule ==
    \A c \in 1..Len(comma_calls) :
        LET ws == comma_calls[c].words
            chunks == comma_calls[c].chunks
            lo(j) == WordsIn(chunks, j - 1) + 1
            hi(j) == WordsIn(chunks, j)
        IN  /\ Len(chunks) >= 1
            /\ hi(Len(chunks)) = Len(ws)
            /\ \A j \in 1..Len(chunks) :
                  /\ lo(j) <= hi(j)
                  /\ chunks[j].start = ws[lo(j)].start
                  /\ chunks[j].end = ws[hi(j)].end
            /\ \A j \in 1..(Len(chunks) - 1) :
                  /\ Last(Last(Tokens(ws[hi(j)].word))) = ","
                  /\ AtLeastMinChunk(ws[hi(j)].end - ws[lo(j)].start)
            /\ \A j \in 1..Len(chunks) :
                  \A i \in lo(j)..hi(j) :
                      (i < Len(ws) /\ Last(Last(Tokens(ws[i].word))) = ","
                          /\ ~ EndsChunk(chunks, i)) =>
                          ~ AtLeastMinChunk(ws[i].end - ws[lo(j)].start)

\* a call that cut a chunk at a comma and left a last chunk shorter than
\* 0.4 * max_duration
C23_Witness ==
    \E c \in 1..Len(comma_calls) :
        /\ Len(comma_calls[c].chunks) >= 2
        /\ ~ AtLeastMinChunk(Last(comma_calls[c].chunks).end
                               - Last(comma_calls[c].chunks).start)

\* the non-blank words of the input that close a sentence: the trimmed text
\* ends with one of . ? !
Stops ==
    { i \in 1..Len(words) :
        /\ NonBlank(words[i].word)
        /\ Last(Strip(words[i].word)) \in {".", "?", "!"} }

\* the last of them, 0 when there is none
LastStop == IF Stops = {} THEN 0 ELSE CHOOSE i \in Stops : \A j \in Stops : j <= i

\* the trailing run: the non-blank words after the last word that closes a
\* sentence
Run == { i \in (LastStop + 1)..Len(words) : NonBlank(words[i].word) }
RunFirst == CHOOSE i \in Run : \A j \in Run : i <= j
RunLast == CHOOSE i \in Run : \A j \in Run : j <= i

\* no segment holds a word that closes a sentence anywhere but as its last
\* word, and as many segments end on such a word as the input has of them
ClosedAtStops ==
    /\ \A s \in 1..Len(segmented) :
          LET toks == Tokens(segmented[s].text)
          IN  \A k \in 1..(Len(toks) - 1) : Last(toks[k]) \notin {".", "?", "!"}
    /\ Cardinality({ s \in 1..Len(segmented) :
                       Last(Last(Tokens(segmented[s].text))) \in {".", "?", "!"} })
          = Cardinality(Stops)

\* C24 as stated: in the output of words_to_sentences a segment boundary
\* follows every non-blank word that ends with . ? or !, and the trailing run
\* of words without closing punctuation is the final segment, from its first
\* word's start to its last word's end.
C24_TrailingRunOneSegment ==
    (pc # "input" /\ words # <<>>) =>
        /\ ClosedAtStops
        /\ Run # {} =>
              /\ Last(segmented).start = words[RunFirst].start
              /\ Last(segmented).end = words[RunLast].end

\* C24 amended: a segment boundary follows every non-blank word that ends with
\* . ? or !, and the trailing run is flushed as the final raw segment: the last
\* k segments of the output hold exactly its words, the first of them starts
\* at its first word's start and the last ends at its last word's end, and k
\* is 1 when the run lasts no longer than max_duration.
C24_SentenceBoundaries ==
    (pc # "input" /\ words # <<>>) =>
        /\ ClosedAtStops
        /\ Run # {} =>
              \E k \in 1..Len(segmented) :
                  LET n == Len(segmented)
                  IN  /\ SegmentTokens(SubSeq(segmented, n - k + 1, n))
                            = WordTokens(SubSeq(words, LastStop + 1, Len(words)))
                      /\ segmented[n - k + 1].start = words[RunFirst].start
                      /\ segmented[n].end = words[RunLast].end
                      /\ (words[RunLast].end - words[RunFirst].start <= MaxDuration
                            => k = 1)

\* C24 witness: a sentence is closed, and the run after it is over-long and is
\* split at a comma, so that the final segment starts later than the run
C24_Witness ==
    /\ pc = "segmented"
    /\ Stops # {}
    /\ Run # {}
    /\ Last(segmented).start > words[RunFirst].start
    /\ Last(segmented).end = words[RunLast].end

\* the distance of the i-th audio interval's start to the extrapolated start
DistOf(i) == Abs(audio_segments[i].start - estimated_start)

\* the audio intervals within 2.0 s of the extrapolated start, boundary included
Within == { i \in 1..Len(audio_segments) : DistOf(i) <= 2 * 5000 }

\* the match the claim names: an interval within 2.0 s that no other such
\* interval is nearer than, and the earliest in the list of those as near
IsNearest(i) ==
    /\ i \in Within
    /\ \A j \in Within : DistOf(i) <= DistOf(j)
    /\ \A j \in Within : DistOf(j) = DistOf(i) => i <= j

\* what find_nearest_audio_start returns, by the claim
NearestAsClaimed ==
    /\ Within = {} => best_audio_start = <<>>
    /\ Within # {} =>
          \E i \in Within : IsNearest(i) /\ best_audio_start = << audio_segments[i].start >>

\* C25 as stated: find_nearest_audio_start returns the start of the interval
\* nearest to the target among those within 2.0 s, boundary included, the
\* earlier in the list on equal distance, and no match when none is within
\* 2.0 s; with no match the extrapolated start is used unchanged.
C25_NoMatchUnchanged ==
    pc = "validated" =>
        /\ NearestAsClaimed
        /\ Within = {} => final_start = estimated_start

\* C25 amended: the same of find_nearest_audio_start; with no match the
\* extrapolated start is used without a move towards the audio, and is
\* clamped to 0 when it is negative.
C25_NearestWithinTolerance ==
    pc = "validated" =>
        /\ NearestAsClaimed
        /\ Within = {} =>
              final_start = (IF estimated_start >= 0 THEN estimated_start ELSE 0)

\* C25 witness: two intervals exactly 2.0 s from the target, one before and
\* one after it, and the one earlier in the list is returned
C25_Witness ==
    /\ pc = "validated"
    /\ \E i \in Within : \E j \in Within :
          /\ i < j
          /\ DistOf(i) = 2 * 5000
          /\ DistOf(j) = 2 * 5000
          /\ IsNearest(i)
          /\ best_audio_start = << audio_segments[i].start >>

\* C26: when the word list given to _split_at_commas has a word ending with a
\* comma before its last word, every chunk returned lasts no longer than
\* max_duration.
C26_ChunksWithinMaxDuration ==
    \A c \in 1..Len(comma_calls) :
        HasCommaWord(comma_calls[c].words) =>
            \A j \in 1..Len(comma_calls[c].chunks) :
                comma_calls[c].chunks[j].end - comma_calls[c].chunks[j].start <= MaxDuration

\* the stages after the first-start correction
AfterCorrection == {"corrected", "extended", "emitted"}

\* what split_long_segments made of the segments it was given, in order
RECURSIVE AllParts(_)
AllParts(cs) == IF cs = <<>> THEN <<>> ELSE Head(cs).parts \o AllParts(Tail(cs))

\* where the segments come from, and whether the first start is corrected
SegmentsByPreference ==
    pc # "input" =>
        /\ words # <<>> =>
              /\ segmented = words_to_sentences(words, MaxDuration)
              /\ coarse_calls = <<>>
        /\ (words # <<>> /\ segmented # <<>> /\ pc \in AfterCorrection) =>
              corrected = SetFirstStart(segmented,
                              estimate_first_sentence_start(words, segmented[1], trace))
        /\ (words = <<>> /\ coarse # <<>>) =>
              /\ Len(coarse_calls) = Len(coarse)
              /\ \A c \in 1..Len(coarse) : coarse_calls[c].seg = coarse[c]
              /\ segmented = AllParts(coarse_calls)
              /\ comma_calls = <<>>
              /\ pc # "raised"
              /\ pc \in AfterCorrection => corrected = segmented
        /\ pc = "emitted" => segments = extend_subtitle_duration(corrected)

\* the extension runs after the correction and the emission after the extension
StagesInOrder ==
    /\ (pc' = "corrected" /\ pc # "corrected") => pc = "segmented"
    /\ (pc' = "extended" /\ pc # "extended") =>
          /\ pc = "corrected"
          /\ segments = corrected
          /\ segments' = extend_subtitle_duration(corrected)
    /\ (pc' = "emitted" /\ pc # "emitted") =>
          /\ pc = "extended"
          /\ segments' = segments
    /\ srt_content' # srt_content => (pc = "extended" /\ pc' = "emitted")

\* C27: with a non-empty word list the segments are those of
\* words_to_sentences, whatever the coarse segments, and the first segment's
\* start is corrected; with no words and some coarse segments the segments are
\* those of split_long_segments and the correction is never applied; in both
\* cases extend_subtitle_duration runs after the correction and before the
\* emission.
C27_WordLevelPreferred == [] SegmentsByPreference /\ [][StagesInOrder]_vars

\* C27 witness: a transcription with a word and a coarse segment has run to
\* the end, and its cue block is the word's, not the coarse segment's
C27_Witness ==
    /\ pc = "emitted"
    /\ words # <<>>
    /\ coarse # <<>>
    /\ coarse_calls = <<>>
    /\ Len(srt_content) = 1
    /\ srt_content[1].text = Strip(words[1].word)
    /\ srt_content[1].text # Strip(coarse[1].text)

\* an error the claim classifies as non-retryable: status 401, 403, 404 or
\* 422, or a message that contains auth or invalid, in letters of either case
ClassifiedNonRetryable(e) ==
    \/ e.status_code \in { <<401>>, <<403>>, <<404>>, <<422>> }
    \/ \E sub \in { << "a", "u", "t", "h" >>, << "i", "n", "v", "a", "l", "i", "d" >> } :
          \E i \in 1..(Len(e.message) - Len(sub) + 1) :
              \A k \in 1..Len(sub) : LowerChar(e.message[i + k - 1]) = sub[k]

\* the loop is over
LoopOver == pc \in {"done", "raised"}

RetryInv ==
    /\ calls <= 3
    /\ calls = Len(failures) + (IF transcription # <<>> THEN 1 ELSE 0)
    /\ (pc = "done") <=> (transcription # <<>>)
    /\ (pc = "raised") <=> (raised # <<>>)
    /\ \A i \in 1..Len(failures) :
          ClassifiedNonRetryable(failures[i]) =>
              /\ i = Len(failures)
              /\ pc = "raised"
              /\ raised = << failures[i] >>
              /\ Len(sleeps) = i - 1
    /\ \A i \in 1..Len(failures) :
          (~ ClassifiedNonRetryable(failures[i]) /\ i < 3) =>
              /\ Len(sleeps) >= i
              /\ sleeps[i] = 2 * i
    /\ Len(sleeps) <= 2
    /\ Len(failures) = 3 => (pc = "raised" /\ raised = << failures[3] >>)
    /\ pc = "raised" => (ClassifiedNonRetryable(Last(failures)) \/ Len(failures) = 3)

\* C28: the retry loop calls the API at most 3 times and stops at the first
\* success; an error with status 401, 403, 404 or 422 or with auth or invalid
\* in its message is re-raised at once; another error is followed by a wait
\* of 2 s after the first failure and of 4 s after the second, and is
\* re-raised when it is the third; every step of the loop is one call, no
\* step follows a success or a raise, and the loop always ends with a
\* transcription or a raised error.
C28_RetryLoop ==
    /\ [] RetryInv
    /\ [][ pc = "call" /\ calls' = calls + 1 ]_vars
    /\ <> LoopOver

\* C28 witness: three errors that may be retried, waits of 2 s and 4 s, and
\* the third error is raised
C28_Witness ==
    /\ pc = "raised"
    /\ calls = 3
    /\ sleeps = << 2, 4 >>
    /\ \A i \in 1..3 : ~ ClassifiedNonRetryable(failures[i])
    /\ raised = << failures[3] >>

\* the i-th extraction succeeded and left a file smaller than 25 MB, a MB
\* being 1024 * 1024 bytes
Fitted(i) == tried[i].ok /\ tried[i].size[1] < 25 * 1024 * 1024

ExtractInv ==
    /\ Len(tried) <= 3
    /\ \A i \in 1..Len(tried) : tried[i].bitrate = << "64k", "32k", "16k" >>[i]
    /\ \A i \in 1..Len(tried) :
          Fitted(i) => (i = Len(tried) /\ returned = << TRUE >>)
    /\ returned = << TRUE >> => (tried # <<>> /\ Fitted(Len(tried)))
    /\ (Len(tried) = 3 /\ \A i \in 1..3 : ~ Fitted(i)) <=> returned = << FALSE >>
    /\ (pc = "returned") <=> (returned # <<>>)

\* C29: extract_audio_within_limit tries 64k, 32k and 16k in that order;
\* it returns True at the first bitrate whose extraction succeeds with a file
\* smaller than 25 MB and tries no lower bitrate; after a failed extraction
\* or a file of 25 MB or more it goes on to the next bitrate; it returns
\* False exactly when none of the three gave a file smaller than 25 MB.
C29_BitrateLadder ==
    /\ [] ExtractInv
    /\ [][ /\ pc = "extract"
           /\ returned = <<>>
           /\ Len(tried') = Len(tried) + 1
           /\ SubSeq(tried', 1, Len(tried)) = tried ]_vars

\* C29 witness: 64k failed, 32k left a file of exactly 25 MB, 16k fitted
C29_Witness ==
    /\ pc = "returned"
    /\ returned = << TRUE >>
    /\ Len(tried) = 3
    /\ ~ tried[1].ok
    /\ tried[2].ok
    /\ tried[2].size = << 25 * 1024 * 1024 >>
    /\ Fitted(3)

\* the fields of a time text between and after the colons
StampFields == SplitColon(stamp, <<>>)

\* the minutes field and the whole seconds of the seconds field, as numbers
MinutesShown == IntVal(StampFields[Len(StampFields) - 1])
SecondsShown == IntVal(SubSeq(Last(StampFields), 1, Len(Last(StampFields)) - 4))

\* C30: for every time of 0 or more, whole milliseconds or not,
\* seconds_to_time writes a minutes field of 00 to 59 and a seconds field
\* below 60, and for a time of whole milliseconds, with the hours and a
\* comma, it writes the text format_timestamp writes.
C30_SecondsBelowSixty ==
    (pc # "time" /\ call.name = "seconds_to_time") =>
        /\ MinutesShown <= 59
        /\ SecondsShown < 60
        /\ (seconds % TicksPerMs = 0 /\ call.include_hours /\ call.use_comma) =>
              stamp = format_timestamp(seconds)

====
